---- MODULE Spec2Model ----
(***************************************************************************)
(* State-machine model of the <ascii-banner> custom element                *)
(* (src/src/scripts/ascii-banner.ts): the grid builder, the morph          *)
(* controller, the pointer physics, the frame loop and the cycle           *)
(* scheduler, together with the browser facilities they run on (the timer  *)
(* queue, the animation-frame queue, the pointer, the clock).              *)
(*                                                                         *)
(* Numbers: times are in milliseconds.  Positions and velocities are kept  *)
(* in fixed point, in units of 1/Subpixel of a CSS pixel; the fractional   *)
(* constants SPRING_K and DAMPING are kept in hundredths and the morph     *)
(* thresholds in thousandths.                                              *)
(***************************************************************************)
EXTENDS Integers, Sequences, FiniteSets, TLC

(***************************************************************************)
(* Bounds of the model.                                                    *)
(***************************************************************************)
\* How many clock instants the model looks at during one morph.
MorphFrames == 3
\* The clock stops at MaxTime.
MaxTime == 8000
\* Fixed-point resolution of positions and velocities (units per pixel).
Subpixel == 16
\* How many characters of GLITCH_CHARS the random draw is taken from.
GlitchSample == 2
\* The counter of scheduleCycle() calls saturates here.
MaxArmed == 10
\* The clock of the cadence specification stops at CadenceTime.
CadenceTime == 3000
\* How many mouseenter, mousemove and mouseleave events a run delivers.
MaxPointerEvents == 2
\* The clock of the pointer specification stops at PointerTime.
PointerTime == 4600
\* how long before performance.now() the timestamp of a frame can lie: the
\* frame time is taken when the frame begins, before the tasks that run
\* ahead of its callbacks
VsyncLag == 16
\* the last instant of the runs with early frame timestamps
EarlyTime == 1000
\* the blog page: the instants the model looks at, and its last one
BlogStep == 50
BlogMaxTime == 500
\* the distance from rest, in pixels, within which a cell counts as settled
Epsilon == 1
\* frames after which cells left alone by the pointer have settled
SettleFrames == 24

(***************************************************************************)
(* Program constants.                                                      *)
(***************************************************************************)
FONT_SIZE == 14
LINE_HEIGHT == 18
MORPH_DURATION == 600
PAUSE_START == 2000
PAUSE_STEP == 1000
PAUSE_MAX == 10000
INITIAL_DELAY == 2000
REPEL_RADIUS == 80
REPEL_FORCE == 3
\* 0.15 and 0.7, in hundredths
SPRING_K == 15
DAMPING == 70
\* -9999: the "far away" pointer position
FAR_AWAY == 0 - 9999
\* the width ctx.measureText('M') reports for the 14px monospace font
CharWidth == 8

\* (the 30th character, the grave accent, is written out by name)
\* the entrance delay of the hover card (BlogList.tsx)
SHOW_DELAY == 150

\* null
Null == "null"

\* the slugs of the posts in the list
Slugs == { "first-post", "second-post" }

GLITCH_CHARS ==
  << "!", "@", "#", "$", "%", "^", "&", "*", "(", ")", "_", "+", "-", "=",
     "[", "]", "{", "}", "|", ";", ":", "'", ",", ".", "<", ">", "?", "/",
     "~", "grave", "0", "1", "2", "3", "4", "5", "6", "7", "8", "9" >>

(***************************************************************************)
(* Arithmetic helpers.                                                     *)
(***************************************************************************)
Min(a, b) == IF a <= b THEN a ELSE b

Abs(a) == IF a < 0 THEN 0 - a ELSE a

\* JavaScript number division followed by keeping the result in fixed
\* point: the quotient rounded toward zero.
Quot(a, b) == IF a >= 0 THEN a \div b ELSE 0 - ((0 - a) \div b)

\* Math.sqrt, rounded down, for 0 <= n < (REPEL_RADIUS * Subpixel)^2 * 2
RECURSIVE SqrtBetween(_, _, _)
SqrtBetween(lo, hi, n) ==
  IF lo = hi THEN lo
  ELSE LET mid == (lo + hi + 1) \div 2
       IN  IF mid * mid <= n THEN SqrtBetween(mid, hi, n)
           ELSE SqrtBetween(lo, mid - 1, n)

Isqrt(n) == SqrtBetween(0, 2 * REPEL_RADIUS * Subpixel, n)

(***************************************************************************)
(* The data-arts attribute: a list of Styles, each a list of art blocks.   *)
(* A block is a string, modelled as the sequence of its characters.        *)
(***************************************************************************)
BlockAB == << "A", "B" >>
BlockXYZ == << "X", "\n", "Y", "Z" >>
BlockQ == << "Q" >>
BlockPQ == << "P", "Q" >>
BlockMN == << "M", "\n", "N" >>

Arts == << << BlockAB, BlockXYZ, BlockQ >>, << BlockPQ, BlockMN >> >>

\* the values JSON.parse of the data-arts attribute can have
ArtsInputs == { Arts, << >>, << << >> >> }

(***************************************************************************)
(* Grid Builder.                                                           *)
(***************************************************************************)
\* art.split('\n'): the lines of a block, each a sequence of characters
RECURSIVE SplitLines(_)
SplitLines(art) ==
  IF art = << >> THEN << << >> >>
  ELSE LET rest == SplitLines(Tail(art))
       IN  IF Head(art) = "\n"
           THEN << << >> >> \o rest
           ELSE << << Head(art) >> \o rest[1] >> \o Tail(rest)

\* the cell pushed for character `char` at (row, col), rows and columns
\* counted from 0
NewCell(char, row, col) ==
  LET rx == col * CharWidth * Subpixel
      ry == (row * LINE_HEIGHT + FONT_SIZE) * Subpixel
  IN  [char |-> char, row |-> row, col |-> col, rx |-> rx, ry |-> ry,
       px |-> rx, py |-> ry, vx |-> 0, vy |-> 0]

\* the cells of one line, in column order
LineCells(line, row) == [c \in 1..Len(line) |-> NewCell(line[c], row, c - 1)]

RECURSIVE GridFrom(_, _)
GridFrom(lines, row) ==
  IF lines = << >> THEN << >>
  ELSE LineCells(Head(lines), row) \o GridFrom(Tail(lines), row + 1)

buildGrid(art) == GridFrom(SplitLines(art), 0)

\* Math.max(...lines.map((l) => l.length)), for at least one line
maxCols(lines) ==
  CHOOSE n \in { Len(lines[k]) : k \in 1..Len(lines) } :
    \A k \in 1..Len(lines) : Len(lines[k]) <= n

(***************************************************************************)
(* Morph thresholds.                                                       *)
(***************************************************************************)
\* (Math.sin(row * 13.37 + col * 7.13) * 0.5 + 0.5) * 0.7 + 0.15, in
\* thousandths, tabulated for rows and columns 0..3
ThresholdTable ==
  << << 500, 762, 847, 698 >>,
     << 752, 849, 710, 430 >>,
     << 850, 722, 444, 204 >>,
     << 734, 459, 213, 160 >> >>

Threshold(row, col) == ThresholdTable[row + 1][col + 1]

(***************************************************************************)
(* State.                                                                  *)
(***************************************************************************)
VARIABLES
  phase,            \* lifecycle of the element
  cells, fontArts, rafId,
  morph,
  currentTextIndex, nextPause, cycleTimer, isMorphing,
  mouseX, mouseY, hovering,
  timers,           \* pending window.setTimeout callbacks
  rafs,             \* pending requestAnimationFrame callbacks
  now,              \* the clock (performance.now and the frame timestamp)
  pointerOver,      \* whether the pointer is over the canvas
  pointerEvents,    \* history: pointer events delivered so far
  lastCall,         \* history: the callback that ran last at this instant
  nArmed,           \* history: calls of scheduleCycle so far (saturating)
  lastPause,        \* history: the delay the last scheduleCycle armed
  started,          \* history: morphs started so far
  completed,        \* history: completion callbacks run so far
  resolved,         \* history: the cells frames of the morph in flight have
                    \* shown resolved (shown), and those among them a later
                    \* frame of that morph has drawn again (again)
  heldFrames        \* history: frames that left a cell off rest since the
                    \* pointer last changed place or the grid was rebuilt
                    \* (saturating)

fields == << phase, cells, fontArts, rafId, morph, currentTextIndex,
             nextPause, cycleTimer, isMorphing, mouseX, mouseY, hovering,
             timers, rafs, nArmed, lastPause, started, completed,
             resolved >>

banner == << fields, now, pointerOver, pointerEvents, lastCall, heldFrames >>

\* The blog list component (BlogList.tsx): its state, its timers and the
\* pointer over its rows.
VARIABLES
  visibleSlug,      \* useState: the slug of the row whose card shows, or Null
  timerRef,         \* useRef: the handle of the last show timer, 0 for null
  blogTimers,       \* pending setTimeout callbacks of the component
  blogNow,          \* the clock of the blog page
  pointerRow,       \* the row the pointer is over, or Null
  enteredAt         \* history: when the pointer entered that row

blog == << visibleSlug, timerRef, blogTimers, blogNow, pointerRow, enteredAt >>

vars == << banner, blog >>

NoCallback == [set |-> FALSE, nextIndex |-> 0]

NoneResolved == [shown |-> {}, again |-> {}]

\* the instance (and the browser queues it owns) as one record, so that the
\* methods below compose as the calls in the source do
Self ==
  [phase |-> phase, cells |-> cells, fontArts |-> fontArts, rafId |-> rafId,
   morph |-> morph, currentTextIndex |-> currentTextIndex,
   nextPause |-> nextPause, cycleTimer |-> cycleTimer,
   isMorphing |-> isMorphing, mouseX |-> mouseX, mouseY |-> mouseY,
   hovering |-> hovering, timers |-> timers, rafs |-> rafs,
   nArmed |-> nArmed, lastPause |-> lastPause, started |-> started,
   completed |-> completed, resolved |-> resolved]

Becomes(s) ==
  /\ phase' = s.phase
  /\ cells' = s.cells
  /\ fontArts' = s.fontArts
  /\ rafId' = s.rafId
  /\ morph' = s.morph
  /\ currentTextIndex' = s.currentTextIndex
  /\ nextPause' = s.nextPause
  /\ cycleTimer' = s.cycleTimer
  /\ isMorphing' = s.isMorphing
  /\ mouseX' = s.mouseX
  /\ mouseY' = s.mouseY
  /\ hovering' = s.hovering
  /\ timers' = s.timers
  /\ rafs' = s.rafs
  /\ nArmed' = s.nArmed
  /\ lastPause' = s.lastPause
  /\ started' = s.started
  /\ completed' = s.completed
  /\ resolved' = s.resolved

\* the state after construction: the field initialisers of the class
Init ==
  /\ phase = "constructed"
  /\ cells = << >>
  /\ fontArts = << >>
  /\ rafId = 0
  /\ morph = [active |-> FALSE, startTime |-> 0, duration |-> MORPH_DURATION,
              fromSnap |-> << >>, toLines |-> << >>, thresholds |-> << >>,
              onComplete |-> NoCallback]
  /\ currentTextIndex = 0
  /\ nextPause = PAUSE_START
  /\ cycleTimer = 0
  /\ isMorphing = FALSE
  /\ mouseX = FAR_AWAY
  /\ mouseY = FAR_AWAY
  /\ hovering = FALSE
  /\ timers = {}
  /\ rafs = {}
  /\ now = 0
  /\ pointerOver \in BOOLEAN
  /\ pointerEvents = 0
  /\ lastCall = "none"
  /\ nArmed = 0
  /\ lastPause = 0
  /\ started = 0
  /\ completed = 0
  /\ resolved = NoneResolved
  /\ heldFrames = 0
  /\ visibleSlug = Null
  /\ timerRef = 0
  /\ blogTimers = {}
  /\ blogNow = 0
  /\ pointerRow = Null
  /\ enteredAt = 0

(***************************************************************************)
(* Browser facilities.                                                     *)
(***************************************************************************)
\* A handle no pending request carries and the instance does not hold: the
\* browser hands out handles it has never used before.
FreshHandle(used) == CHOOSE h \in 1..(Cardinality(used) + 1) : h \notin used

TimerHandles(s) == { t.id : t \in s.timers } \cup { s.cycleTimer }

\* window.setTimeout(callback, delay) at time t; kind names the callback
setTimeout(s, kind, delay, t) ==
  [s EXCEPT !.timers = @ \cup { [id |-> FreshHandle(TimerHandles(s)),
                                kind |-> kind, due |-> t + delay] }]

clearTimeout(s, handle) ==
  [s EXCEPT !.timers = { t \in @ : t.id # handle }]

requestAnimationFrame(s) ==
  LET h == FreshHandle(s.rafs \cup { s.rafId })
  IN  [s EXCEPT !.rafs = @ \cup { h }, !.rafId = h]

cancelAnimationFrame(s, handle) == [s EXCEPT !.rafs = @ \ { handle }]

(***************************************************************************)
(* Methods of AsciiBanner, as functions from the instance to the instance. *)
(***************************************************************************)
\* a rebuild that carries the motion of the old cells over to the new ones
initCanvasKeepingMotion(s, art) ==
  LET fresh == buildGrid(art)
  IN  [s EXCEPT !.cells = [i \in 1..Len(fresh) |->
         IF i <= Len(s.cells)
         THEN [fresh[i] EXCEPT
                 !.px = fresh[i].rx + (s.cells[i].px - s.cells[i].rx),
                 !.py = fresh[i].ry + (s.cells[i].py - s.cells[i].ry),
                 !.vx = s.cells[i].vx, !.vy = s.cells[i].vy]
         ELSE fresh[i]]]

initCanvas(s, art) == [s EXCEPT !.cells = buildGrid(art)]

\* startMorph() without its guard
startMorphUnguarded(s, toArt, onComplete, t) ==
  [s EXCEPT
     !.morph = [active |-> TRUE,
                startTime |-> t,
                duration |-> @.duration,
                fromSnap |-> s.cells,
                toLines |-> SplitLines(toArt),
                thresholds |-> [i \in 1..Len(s.cells) |->
                                  Threshold(s.cells[i].row, s.cells[i].col)],
                onComplete |-> onComplete],
     !.started = @ + 1,
     !.resolved = NoneResolved]

\* startMorph() drawing its thresholds from the start time as well
startMorphSeeded(s, toArt, onComplete, t) ==
  IF s.morph.active THEN s
  ELSE [s EXCEPT
          !.morph = [active |-> TRUE,
                     startTime |-> t,
                     duration |-> @.duration,
                     fromSnap |-> s.cells,
                     toLines |-> SplitLines(toArt),
                     thresholds |-> [i \in 1..Len(s.cells) |->
                                       Threshold(s.cells[i].row,
                                                 (s.cells[i].col + t \div PAUSE_STEP)
                                                   % Len(ThresholdTable))],
                     onComplete |-> onComplete],
          !.started = @ + 1,
          !.resolved = NoneResolved]

\* a startMorph that snapshots the grid of the target block
startMorphSnapshottingTarget(s, toArt, onComplete, t) ==
  IF s.morph.active THEN s
  ELSE [s EXCEPT
          !.morph = [active |-> TRUE,
                     startTime |-> t,
                     duration |-> @.duration,
                     fromSnap |-> buildGrid(toArt),
                     toLines |-> SplitLines(toArt),
                     thresholds |-> [i \in 1..Len(s.cells) |->
                                       Threshold(s.cells[i].row, s.cells[i].col)],
                     onComplete |-> onComplete],
          !.started = @ + 1,
          !.resolved = NoneResolved]

startMorph(s, toArt, onComplete, t) ==
  IF s.morph.active THEN s
  ELSE [s EXCEPT
          !.morph = [active |-> TRUE,
                     startTime |-> t,
                     duration |-> @.duration,
                     fromSnap |-> s.cells,
                     toLines |-> SplitLines(toArt),
                     thresholds |-> [i \in 1..Len(s.cells) |->
                                       Threshold(s.cells[i].row, s.cells[i].col)],
                     onComplete |-> onComplete],
          !.started = @ + 1,
          !.resolved = NoneResolved]

\* scheduleCycle() with its two statements swapped: the pause grows before
\* the timer is armed
scheduleCycleStepFirst(s, t) ==
  LET h == FreshHandle(TimerHandles(s))
      grown == Min(s.nextPause + PAUSE_STEP, PAUSE_MAX)
      armed == setTimeout(s, "cycle", grown, t)
  IN  [armed EXCEPT !.cycleTimer = h,
                    !.nextPause = grown,
                    !.nArmed = Min(@ + 1, MaxArmed),
                    !.lastPause = grown]

\* a scheduleCycle that lengthens the pause and arms no timer
scheduleCycleNotArming(s, t) ==
  [s EXCEPT !.nextPause = Min(s.nextPause + PAUSE_STEP, PAUSE_MAX),
            !.lastPause = s.nextPause]

scheduleCycle(s, t) ==
  LET h == FreshHandle(TimerHandles(s))
      armed == setTimeout(s, "cycle", s.nextPause, t)
  IN  [armed EXCEPT !.cycleTimer = h,
                    !.nextPause = Min(s.nextPause + PAUSE_STEP, PAUSE_MAX),
                    !.nArmed = Min(@ + 1, MaxArmed),
                    !.lastPause = s.nextPause]

\* the completion callback without its call of scheduleCycle()
onCompleteCallbackNotArming(s, nextIndex, t) ==
  LET rebuilt == initCanvas(s, s.fontArts[nextIndex + 1])
  IN  [rebuilt EXCEPT !.currentTextIndex = nextIndex,
                      !.isMorphing = FALSE,
                      !.completed = @ + 1,
                      !.resolved = NoneResolved]

\* the completion callback without its call of initCanvas()
onCompleteCallbackNotRebuilding(s, nextIndex, t) ==
  scheduleCycle([s EXCEPT !.currentTextIndex = nextIndex,
                          !.isMorphing = FALSE,
                          !.completed = @ + 1,
                          !.resolved = NoneResolved], t)

\* the completion callback without `this.currentTextIndex = nextIndex`
onCompleteCallbackKeepingIndex(s, nextIndex, t) ==
  LET rebuilt == initCanvas(s, s.fontArts[nextIndex + 1])
  IN  scheduleCycle([rebuilt EXCEPT !.isMorphing = FALSE,
                                    !.completed = @ + 1,
                                    !.resolved = NoneResolved], t)

\* the completion callback without `this.isMorphing = false`
onCompleteCallbackKeepingFlag(s, nextIndex, t) ==
  LET rebuilt == initCanvas(s, s.fontArts[nextIndex + 1])
  IN  scheduleCycle([rebuilt EXCEPT !.currentTextIndex = nextIndex,
                                    !.completed = @ + 1,
                                    !.resolved = NoneResolved], t)

\* the arrow function cycle() hands to startMorph, closed over nextIndex
onCompleteCallback(s, nextIndex, t) ==
  LET rebuilt == initCanvas(s, s.fontArts[nextIndex + 1])
  IN  scheduleCycle([rebuilt EXCEPT !.currentTextIndex = nextIndex,
                                    !.isMorphing = FALSE,
                                    !.completed = @ + 1,
                                    !.resolved = NoneResolved], t)

\* cycle() re-arming itself when it finds the banner busy or hovered
cycleRetrying(s, t) ==
  IF s.isMorphing \/ s.hovering THEN scheduleCycle(s, t)
  ELSE LET nextIndex == (s.currentTextIndex + 1) % Len(s.fontArts)
       IN  startMorph([s EXCEPT !.isMorphing = TRUE],
                      s.fontArts[nextIndex + 1],
                      [set |-> TRUE, nextIndex |-> nextIndex], t)

\* cycle() without the hovering half of its guard
cycleIgnoringHover(s, t) ==
  IF s.isMorphing THEN s
  ELSE LET nextIndex == (s.currentTextIndex + 1) % Len(s.fontArts)
       IN  startMorph([s EXCEPT !.isMorphing = TRUE],
                      s.fontArts[nextIndex + 1],
                      [set |-> TRUE, nextIndex |-> nextIndex], t)

cycle(s, t) ==
  IF s.isMorphing \/ s.hovering THEN s
  ELSE LET nextIndex == (s.currentTextIndex + 1) % Len(s.fontArts)
       IN  startMorph([s EXCEPT !.isMorphing = TRUE],
                      s.fontArts[nextIndex + 1],
                      [set |-> TRUE, nextIndex |-> nextIndex], t)

(***************************************************************************)
(* One frame: morph update, physics update, draw, reschedule.              *)
(***************************************************************************)
\* a progress that starts over every `duration` milliseconds
ProgressLooping(m, timestamp) ==
  Min((((timestamp - m.startTime) % m.duration) * 1000) \div m.duration, 1000)

\* the progress without Math.min
ProgressUnbounded(m, timestamp) ==
  ((timestamp - m.startTime) * 1000) \div m.duration

\* Math.min((timestamp - startTime) / duration, 1), in thousandths
Progress(m, timestamp) ==
  Min(((timestamp - m.startTime) * 1000) \div m.duration, 1000)

GlitchAlphabet == { GLITCH_CHARS[k] : k \in 1..GlitchSample }

\* a target lookup that falls back on the glyph the cell shows instead of a
\* blank
ToCharKeeping(m, cell) ==
  IF cell.row + 1 <= Len(m.toLines)
     /\ cell.col + 1 <= Len(m.toLines[cell.row + 1])
  THEN m.toLines[cell.row + 1][cell.col + 1]
  ELSE cell.char

\* this.morph.toLines[cell.row]?.[cell.col] ?? ' '
ToChar(m, cell) ==
  IF cell.row + 1 <= Len(m.toLines)
     /\ cell.col + 1 <= Len(m.toLines[cell.row + 1])
  THEN m.toLines[cell.row + 1][cell.col + 1]
  ELSE " "

\* this.morph.fromSnap[i]?.char ?? ' '
FromChar(m, i) == IF i <= Len(m.fromSnap) THEN m.fromSnap[i].char ELSE " "

Resolved(m, i, progress) == progress >= m.thresholds[i]

Glitching(m, i, progress) ==
  ~Resolved(m, i, progress) /\ progress * 10 > m.thresholds[i] * 3

\* the indices of the cells that show a random character at this progress
GlitchCells(s, timestamp) ==
  IF ~s.morph.active THEN {}
  ELSE { i \in 1..Len(s.cells) :
           Glitching(s.morph, i, Progress(s.morph, timestamp)) }

\* the body of the forEach: glitch[i] is the character Math.random picks
MorphChar(m, cell, i, progress, glitch) ==
  IF Resolved(m, i, progress) THEN ToChar(m, cell)
  ELSE IF Glitching(m, i, progress) THEN glitch[i]
  ELSE FromChar(m, i)

\* history: the resolved cells after a frame at this progress
ResolvedBy(s, progress) ==
  [shown |-> s.resolved.shown \cup
               { i \in 1..Len(s.cells) : Resolved(s.morph, i, progress) },
   again |-> s.resolved.shown]

\* the morph update without `this.morph.active = false`
morphUpdateStayingActive(s, timestamp, glitch, t) ==
  IF ~s.morph.active THEN s
  ELSE LET progress == Progress(s.morph, timestamp)
           shown == [s EXCEPT
                       !.cells = [i \in 1..Len(s.cells) |->
                         [s.cells[i] EXCEPT !.char =
                            MorphChar(s.morph, s.cells[i], i, progress, glitch)]],
                       !.resolved = ResolvedBy(s, progress)]
       IN  IF progress >= 1000 /\ shown.morph.onComplete.set
           THEN onCompleteCallback(shown, shown.morph.onComplete.nextIndex, t)
           ELSE shown

morphUpdate(s, timestamp, glitch, t) ==
  IF ~s.morph.active THEN s
  ELSE LET progress == Progress(s.morph, timestamp)
           shown == [s EXCEPT
                       !.cells = [i \in 1..Len(s.cells) |->
                         [s.cells[i] EXCEPT !.char =
                            MorphChar(s.morph, s.cells[i], i, progress, glitch)]],
                       !.resolved = ResolvedBy(s, progress)]
       IN  IF progress >= 1000
           THEN LET ended == [shown EXCEPT !.morph.active = FALSE]
                IN  IF ended.morph.onComplete.set
                    THEN onCompleteCallback(ended,
                                            ended.morph.onComplete.nextIndex, t)
                    ELSE ended
           ELSE shown

\* the velocity impulse away from the pointer along one axis; d is the
\* cell's rest coordinate minus the pointer's, dist the distance
Repulsion(d, dist) ==
  Quot(d * REPEL_FORCE * (REPEL_RADIUS * Subpixel - dist), REPEL_RADIUS * dist)

\* the physics step with the repulsion measured from where the cell is
physicsCellFromPosition(cell, mx, my) ==
  LET dx == cell.px - mx * Subpixel
      dy == cell.py - my * Subpixel
      reach == REPEL_RADIUS * Subpixel
      near == Abs(dx) < reach /\ Abs(dy) < reach
      dist == IF near THEN Isqrt(dx * dx + dy * dy) ELSE reach
      repel == dist < reach /\ dist > 0
      vx1 == cell.vx + (IF repel THEN Repulsion(dx, dist) ELSE 0)
      vy1 == cell.vy + (IF repel THEN Repulsion(dy, dist) ELSE 0)
      vx2 == vx1 + Quot((cell.rx - cell.px) * SPRING_K, 100)
      vy2 == vy1 + Quot((cell.ry - cell.py) * SPRING_K, 100)
      vx3 == Quot(vx2 * DAMPING, 100)
      vy3 == Quot(vy2 * DAMPING, 100)
  IN  [cell EXCEPT !.vx = vx3, !.vy = vy3,
                   !.px = cell.px + vx3, !.py = cell.py + vy3]

\* the physics step without damping
physicsCellUndamped(cell, mx, my) ==
  LET dx == cell.rx - mx * Subpixel
      dy == cell.ry - my * Subpixel
      reach == REPEL_RADIUS * Subpixel
      near == Abs(dx) < reach /\ Abs(dy) < reach
      dist == IF near THEN Isqrt(dx * dx + dy * dy) ELSE reach
      repel == dist < reach /\ dist > 0
      vx1 == cell.vx + (IF repel THEN Repulsion(dx, dist) ELSE 0)
      vy1 == cell.vy + (IF repel THEN Repulsion(dy, dist) ELSE 0)
      vx2 == vx1 + Quot((cell.rx - cell.px) * SPRING_K, 100)
      vy2 == vy1 + Quot((cell.ry - cell.py) * SPRING_K, 100)
  IN  [cell EXCEPT !.vx = vx2, !.vy = vy2,
                   !.px = cell.px + vx2, !.py = cell.py + vy2]

\* the physics step without the spring that pulls a cell back to rest
physicsCellNoSpring(cell, mx, my) ==
  LET dx == cell.rx - mx * Subpixel
      dy == cell.ry - my * Subpixel
      reach == REPEL_RADIUS * Subpixel
      near == Abs(dx) < reach /\ Abs(dy) < reach
      dist == IF near THEN Isqrt(dx * dx + dy * dy) ELSE reach
      repel == dist < reach /\ dist > 0
      vx1 == cell.vx + (IF repel THEN Repulsion(dx, dist) ELSE 0)
      vy1 == cell.vy + (IF repel THEN Repulsion(dy, dist) ELSE 0)
      vx3 == Quot(vx1 * DAMPING, 100)
      vy3 == Quot(vy1 * DAMPING, 100)
  IN  [cell EXCEPT !.vx = vx3, !.vy = vy3,
                   !.px = cell.px + vx3, !.py = cell.py + vy3]

physicsCell(cell, mx, my) ==
  LET dx == cell.rx - mx * Subpixel
      dy == cell.ry - my * Subpixel
      reach == REPEL_RADIUS * Subpixel
      near == Abs(dx) < reach /\ Abs(dy) < reach
      dist == IF near THEN Isqrt(dx * dx + dy * dy) ELSE reach
      repel == dist < reach /\ dist > 0
      vx1 == cell.vx + (IF repel THEN Repulsion(dx, dist) ELSE 0)
      vy1 == cell.vy + (IF repel THEN Repulsion(dy, dist) ELSE 0)
      vx2 == vx1 + Quot((cell.rx - cell.px) * SPRING_K, 100)
      vy2 == vy1 + Quot((cell.ry - cell.py) * SPRING_K, 100)
      vx3 == Quot(vx2 * DAMPING, 100)
      vy3 == Quot(vy2 * DAMPING, 100)
  IN  [cell EXCEPT !.vx = vx3, !.vy = vy3,
                   !.px = cell.px + vx3, !.py = cell.py + vy3]

\* a physics update that drags the rest position of each cell along with it
physicsUpdateMovingRest(s) ==
  [s EXCEPT !.cells = [i \in 1..Len(@) |->
     LET moved == physicsCell(@[i], s.mouseX, s.mouseY)
     IN  [moved EXCEPT !.rx = moved.px, !.ry = moved.py]]]

physicsUpdate(s) ==
  [s EXCEPT !.cells = [i \in 1..Len(@) |-> physicsCell(@[i], s.mouseX, s.mouseY)]]

\* a frame that moves the cells before it updates the morph
renderPhysicsFirst(s, timestamp, glitch, t) ==
  requestAnimationFrame(morphUpdate(physicsUpdate(s), timestamp, glitch, t))

\* a render that does not request the next frame
renderNotRescheduling(s, timestamp, glitch, t) ==
  physicsUpdate(morphUpdate(s, timestamp, glitch, t))

render(s, timestamp, glitch, t) ==
  requestAnimationFrame(physicsUpdate(morphUpdate(s, timestamp, glitch, t)))

(***************************************************************************)
(* Lifecycle callbacks and listeners.                                      *)
(***************************************************************************)
\* connectedCallback with a guard that tests the canvas only: with no Style
\* fontArts is undefined and initCanvas throws
connectedCallbackCanvasOnly(s, arts, canvas, fontIndex, t) ==
  IF ~canvas THEN [s EXCEPT !.phase = "inert"]
  ELSE IF Len(arts) = 0 THEN [s EXCEPT !.phase = "failed"]
  ELSE LET chosen == [s EXCEPT !.fontArts = arts[fontIndex + 1]]
       IN  IF Len(chosen.fontArts) = 0
           THEN [chosen EXCEPT !.phase = "failed"]
           ELSE LET drawn == requestAnimationFrame(
                                 initCanvas(chosen, chosen.fontArts[1]))
                    listening == [drawn EXCEPT !.phase = "running"]
                IN  setTimeout(listening, "scheduleCycle", INITIAL_DELAY, t)

\* arts: the parsed data-arts; canvas: whether querySelector finds one;
\* fontIndex: Math.floor(Math.random() * arts.length)
connectedCallback(s, arts, canvas, fontIndex, t) ==
  IF ~canvas \/ Len(arts) = 0 THEN [s EXCEPT !.phase = "inert"]
  ELSE LET chosen == [s EXCEPT !.fontArts = arts[fontIndex + 1]]
       IN  IF Len(chosen.fontArts) = 0
           THEN \* initCanvas(undefined): art.split throws a TypeError
                [chosen EXCEPT !.phase = "failed"]
           ELSE LET drawn == requestAnimationFrame(
                                 initCanvas(chosen, chosen.fontArts[1]))
                    listening == [drawn EXCEPT !.phase = "running"]
                IN  setTimeout(listening, "scheduleCycle", INITIAL_DELAY, t)

disconnectedCallback(s) ==
  [clearTimeout(cancelAnimationFrame(s, s.rafId), s.cycleTimer)
     EXCEPT !.phase = "disconnected"]

\* a mouseenter listener that also abandons the morph in flight
mouseenterAborting(s) ==
  clearTimeout([s EXCEPT !.hovering = TRUE, !.morph.active = FALSE,
                         !.isMorphing = FALSE], s.cycleTimer)

mouseenter(s) == clearTimeout([s EXCEPT !.hovering = TRUE], s.cycleTimer)

\* a mousemove listener that also takes the pointer as hovering
mousemoveMarkingHover(s, x, y) ==
  [s EXCEPT !.mouseX = x, !.mouseY = y, !.hovering = TRUE]

mousemove(s, x, y) == [s EXCEPT !.mouseX = x, !.mouseY = y]

\* a mouseleave listener that arms no timer
mouseleaveNotArming(s, t) ==
  [s EXCEPT !.hovering = FALSE, !.mouseX = FAR_AWAY, !.mouseY = FAR_AWAY]

\* a mouseleave listener that leaves the pointer coordinates as they were
mouseleaveKeepingPointer(s, t) ==
  LET left == [s EXCEPT !.hovering = FALSE]
  IN  IF ~left.isMorphing THEN scheduleCycle(left, t) ELSE left

\* a mouseleave listener that re-arms whatever the banner is doing
mouseleaveAlwaysArming(s, t) ==
  scheduleCycle([s EXCEPT !.hovering = FALSE,
                          !.mouseX = FAR_AWAY, !.mouseY = FAR_AWAY], t)

mouseleave(s, t) ==
  LET left == [s EXCEPT !.hovering = FALSE,
                        !.mouseX = FAR_AWAY, !.mouseY = FAR_AWAY]
  IN  IF ~left.isMorphing THEN scheduleCycle(left, t) ELSE left

\* what runs when a timer fires
timerCallback(s, kind, t) ==
  IF kind = "scheduleCycle" THEN scheduleCycle(s, t) ELSE cycle(s, t)

(***************************************************************************)
(* Inputs of the model.                                                    *)
(***************************************************************************)
\* pointer positions, in canvas pixels, a mousemove reports
MousePoints == { << 4, 20 >> }

\* the timestamps a frame that runs at time t can be given
FrameTimestamps(t) == { t }

(***************************************************************************)
(* Actions: one per callback the browser can run, plus the clock.          *)
(***************************************************************************)
Connect ==
  /\ phase = "constructed"
  /\ \E arts \in ArtsInputs, canvas \in BOOLEAN :
       \E fontIndex \in 0..(IF Len(arts) = 0 THEN 0 ELSE Len(arts) - 1) :
         Becomes(connectedCallback(Self, arts, canvas, fontIndex, now))
  /\ lastCall' = "connectedCallback"
  /\ UNCHANGED << now, pointerOver, pointerEvents, heldFrames, blog >>

Disconnect ==
  /\ phase \in { "inert", "failed", "running", "disconnected" }
  /\ Becomes(disconnectedCallback(Self))
  /\ lastCall' = "disconnectedCallback"
  /\ UNCHANGED << now, pointerOver, pointerEvents, heldFrames, blog >>

\* heldFrames after a pointer event: the count starts again when the
\* pointer coordinates change
HeldAfterPointer ==
  IF mouseX' = mouseX /\ mouseY' = mouseY THEN heldFrames ELSE 0

\* the pointer comes over the canvas
PointerEnters ==
  /\ phase = "running"
  /\ ~pointerOver
  /\ pointerOver' = TRUE
  /\ Becomes(mouseenter(Self))
  /\ lastCall' = "mouseenter"
  /\ UNCHANGED << now, heldFrames, blog >>

PointerMoves ==
  /\ phase = "running"
  /\ pointerOver
  /\ \E p \in MousePoints : Becomes(mousemove(Self, p[1], p[2]))
  /\ lastCall' = "mousemove"
  /\ heldFrames' = HeldAfterPointer
  /\ UNCHANGED << now, pointerOver, blog >>

\* the pointer leaves the canvas
PointerLeaves ==
  /\ phase = "running"
  /\ pointerOver
  /\ pointerOver' = FALSE
  /\ Becomes(mouseleave(Self, now))
  /\ lastCall' = "mouseleave"
  /\ heldFrames' = HeldAfterPointer
  /\ UNCHANGED << now, blog >>

\* pointer events, at most MaxPointerEvents of them in a run
MouseEnter ==
  /\ pointerEvents < MaxPointerEvents
  /\ pointerEvents' = pointerEvents + 1
  /\ PointerEnters

MouseLeave ==
  /\ pointerEvents < MaxPointerEvents
  /\ pointerEvents' = pointerEvents + 1
  /\ PointerLeaves

MouseMove ==
  /\ pointerEvents < MaxPointerEvents
  /\ pointerEvents' = pointerEvents + 1
  /\ PointerMoves

\* what the instance was doing when a timer callback ran
TimerCall(kind) ==
  IF kind = "scheduleCycle" THEN "scheduleCycle"
  ELSE IF morph.active THEN "cycle during morph"
  ELSE IF hovering THEN "cycle during hover"
  ELSE "cycle"

\* timer tm fires: its delay has elapsed, and no pending timer is due earlier
FireTimer(tm) ==
  /\ tm.due <= now
  /\ \A other \in timers : tm.due <= other.due
  /\ Becomes(timerCallback([Self EXCEPT !.timers = @ \ { tm }], tm.kind, now))
  /\ lastCall' = TimerCall(tm.kind)
  /\ UNCHANGED << now, pointerOver, pointerEvents, heldFrames, blog >>

TimerFires == \E tm \in timers : FireTimer(tm)

\* a cell that is displaced or moving
OffRest(cell) ==
  cell.px # cell.rx \/ cell.py # cell.ry \/ cell.vx # 0 \/ cell.vy # 0

\* heldFrames after a frame: a rebuild starts the count again, and a frame
\* that leaves a cell off rest counts
HeldAfterFrame ==
  LET base == IF morph.active /\ ~morph'.active THEN 0 ELSE heldFrames
  IN  IF \E i \in 1..Len(cells') : OffRest(cells'[i])
      THEN Min(base + 1, SettleFrames)
      ELSE base

\* the browser runs a pending animation-frame callback
Frame ==
  /\ \E h \in rafs, timestamp \in FrameTimestamps(now) :
       \E glitch \in [GlitchCells(Self, timestamp) -> GlitchAlphabet] :
         Becomes(render([Self EXCEPT !.rafs = @ \ { h }],
                        timestamp, glitch, now))
  /\ lastCall' = IF morph.active THEN "render during morph" ELSE "render"
  /\ heldFrames' = HeldAfterFrame
  /\ UNCHANGED << now, pointerOver, pointerEvents, blog >>

\* The clock advances in steps of TickMs while a morph is in flight and of
\* IdleMs otherwise.
TickMs == MORPH_DURATION \div MorphFrames

IdleMs == PAUSE_STEP

\* the due time of the timer that fires next
NextDue == CHOOSE d \in { tm.due : tm \in timers } :
             \A tm \in timers : d <= tm.due

\* Time passes, once every timer that is due has fired, up to the next
\* instant the model looks at: TickMs later while a morph is in flight,
\* IdleMs later otherwise, and no later than the next timer is due.
Tick ==
  /\ phase \in { "running", "disconnected" }
  /\ \A tm \in timers : tm.due > now
  /\ LET step == IF morph.active THEN TickMs ELSE IdleMs
         next == IF timers = {} THEN now + step
                 ELSE Min(now + step, NextDue)
     IN  /\ next <= MaxTime
         /\ now' = next
  /\ lastCall' = "none"
  /\ UNCHANGED << fields, pointerOver, pointerEvents, heldFrames, blog >>

(***************************************************************************)
(* The banner on a page: cycle timers, frames, hovering and teardown.  The *)
(* pointer enters and leaves but reports no position inside the canvas, so *)
(* that the cells stay at rest; PointerMoves belongs to the specification  *)
(* of the pointer physics.                                                 *)
(***************************************************************************)
Next ==
  \/ Connect
  \/ Disconnect
  \/ MouseEnter
  \/ MouseLeave
  \/ TimerFires
  \/ Frame
  \/ Tick

Spec == Init /\ [][Next]_vars

(***************************************************************************)
(* The Morph Controller on its own: startMorph is also called directly, at *)
(* any moment, with any block of the Style as its target.                  *)
(***************************************************************************)
StartMorphCall ==
  /\ phase = "running"
  /\ \E nextIndex \in 0..(Len(fontArts) - 1) :
       Becomes(startMorph(Self, fontArts[nextIndex + 1],
                          [set |-> TRUE, nextIndex |-> nextIndex], now))
  /\ lastCall' = IF morph.active THEN "startMorph during morph"
                 ELSE "startMorph"
  /\ UNCHANGED << now, pointerOver, pointerEvents, heldFrames, blog >>

\* No timer fires here, so the clock stops when the initial-delay timer is
\* due: the morphs of this specification are the directly started ones.
NextMorph ==
  \/ Connect
  \/ StartMorphCall
  \/ Frame
  \/ Tick

SpecMorph == Init /\ [][NextMorph]_vars

(***************************************************************************)
(* The cadence of the cycle scheduler: the first CadenceTime milliseconds  *)
(* of a connected banner, with any number of pointer events and no         *)
(* teardown, so that scheduleCycle is called often enough for the pause to *)
(* reach its cap.                                                          *)
(***************************************************************************)
MouseEnterFreely == PointerEnters /\ UNCHANGED pointerEvents

MouseLeaveFreely == PointerLeaves /\ UNCHANGED pointerEvents

TickCadence == Tick /\ now' <= CadenceTime

NextCadence ==
  \/ Connect
  \/ MouseEnterFreely
  \/ MouseLeaveFreely
  \/ TimerFires
  \/ Frame
  \/ TickCadence

SpecCadence == Init /\ [][NextCadence]_vars

(***************************************************************************)
(* The pointer physics: the first PointerTime milliseconds of a connected  *)
(* banner, up to the completion of its first morph, in which the pointer   *)
(* enters, moves and leaves while timers fire and frames run, so that      *)
(* cells are away from rest when the grid is rebuilt.                      *)
(***************************************************************************)
TickPointer == Tick /\ now' <= PointerTime

\* the display refreshes at most once between two other events
FramePaced == lastCall \notin { "render", "render during morph" } /\ Frame

NextPointer ==
  \/ Connect
  \/ MouseEnter
  \/ MouseMove
  \/ MouseLeave
  \/ TimerFires
  \/ FramePaced
  \/ TickPointer

SpecPointer == Init /\ [][NextPointer]_vars

(***************************************************************************)
(* Frame timestamps: the timestamp requestAnimationFrame hands to render   *)
(* is the time the frame began, which can lie before the performance.now() *)
(* that a timer callback or a direct call read in the same frame.          *)
(***************************************************************************)
EarlyTimestamps(t) == { t - VsyncLag }

\* the browser runs a pending animation-frame callback with the time the
\* frame began
FrameEarly ==
  /\ \E h \in rafs, timestamp \in EarlyTimestamps(now) :
       \E glitch \in [GlitchCells(Self, timestamp) -> GlitchAlphabet] :
         Becomes(render([Self EXCEPT !.rafs = @ \ { h }],
                        timestamp, glitch, now))
  /\ lastCall' = IF morph.active THEN "early render during morph"
                 ELSE "early render"
  /\ heldFrames' = HeldAfterFrame
  /\ UNCHANGED << now, pointerOver, pointerEvents, blog >>

TickEarly == Tick /\ now' <= EarlyTime

NextEarly ==
  \/ Connect
  \/ StartMorphCall
  \/ Frame
  \/ FrameEarly
  \/ TickEarly

SpecEarly == Init /\ [][NextEarly]_vars

(***************************************************************************)
(* The pointer physics on its own: the frames of a banner whose pointer    *)
(* rests, during the initial delay.  The clock does not advance, so no     *)
(* timer fires and no morph starts.  The browser keeps running animation   *)
(* frame callbacks as long as one is requested.                            *)
(***************************************************************************)
\* a mousemove that puts the pointer exactly on the rest position of a cell
MouseOnCell ==
  /\ pointerEvents < MaxPointerEvents
  /\ pointerEvents' = pointerEvents + 1
  /\ phase = "running"
  /\ pointerOver
  /\ \E i \in 1..Len(cells) :
       Becomes(mousemove(Self, cells[i].rx \div Subpixel,
                         cells[i].ry \div Subpixel))
  /\ lastCall' = "mousemove"
  /\ heldFrames' = HeldAfterPointer
  /\ UNCHANGED << now, pointerOver, blog >>

NextSettle ==
  \/ Connect
  \/ MouseEnter
  \/ MouseMove
  \/ MouseOnCell
  \/ MouseLeave
  \/ Frame

SpecSettle == Init /\ [][NextSettle]_vars

(***************************************************************************)
(* The blog list: handleMouseEnter and handleMouseLeave of BlogList.tsx as *)
(* functions of the component's state, and the events of its page.         *)
(***************************************************************************)
BlogSelf ==
  [visibleSlug |-> visibleSlug, timerRef |-> timerRef, timers |-> blogTimers]

BlogBecomes(b) ==
  /\ visibleSlug' = b.visibleSlug
  /\ timerRef' = b.timerRef
  /\ blogTimers' = b.timers

\* if (timerRef.current) clearTimeout(timerRef.current)
clearPending(b) ==
  IF b.timerRef # 0
  THEN [b EXCEPT !.timers = { tm \in @ : tm.id # b.timerRef }]
  ELSE b

handleMouseEnter(b, slug, t) ==
  LET cleared == clearPending(b)
      h == FreshHandle({ tm.id : tm \in cleared.timers } \cup { b.timerRef })
  IN  [cleared EXCEPT
         !.timers = @ \cup { [id |-> h, slug |-> slug, due |-> t + SHOW_DELAY] },
         !.timerRef = h]

\* handleMouseLeave without its clearTimeout
handleMouseLeaveNotClearing(b) == [b EXCEPT !.visibleSlug = Null]

handleMouseLeaveKeepingCard(b) == clearPending(b)

handleMouseLeave(b) == [clearPending(b) EXCEPT !.visibleSlug = Null]

\* () => setVisibleSlug(slug)
showCallback(b, slug) == [b EXCEPT !.visibleSlug = slug]

\* the pointer comes onto a row, from outside every row
RowEnter ==
  /\ pointerRow = Null
  /\ \E slug \in Slugs :
       /\ pointerRow' = slug
       /\ BlogBecomes(handleMouseEnter(BlogSelf, slug, blogNow))
  /\ enteredAt' = blogNow
  /\ UNCHANGED << blogNow, banner >>

\* the pointer leaves the row it is on
RowLeave ==
  /\ pointerRow # Null
  /\ pointerRow' = Null
  /\ BlogBecomes(handleMouseLeave(BlogSelf))
  /\ UNCHANGED << blogNow, enteredAt, banner >>

\* a show timer fires, at or after the time it is due
ShowTimerFires ==
  /\ \E tm \in blogTimers :
       /\ tm.due <= blogNow
       /\ BlogBecomes(showCallback([BlogSelf EXCEPT !.timers = @ \ { tm }],
                                   tm.slug))
  /\ UNCHANGED << blogNow, pointerRow, enteredAt, banner >>

BlogTick ==
  /\ blogNow + BlogStep <= BlogMaxTime
  /\ blogNow' = blogNow + BlogStep
  /\ UNCHANGED << visibleSlug, timerRef, blogTimers, pointerRow, enteredAt,
                  banner >>

NextBlog ==
  \/ RowEnter
  \/ RowLeave
  \/ ShowTimerFires
  \/ BlogTick

SpecBlog == Init /\ [][NextBlog]_vars

(***************************************************************************)
(* Properties.                                                             *)
(***************************************************************************)
\* a step in which render() runs: only a frame of the connected element
\* replaces the handle in rafId
FrameRuns == phase = "running" /\ rafId' # rafId

\* a step in which a timer armed by scheduleCycle fires and runs cycle()
CycleTimerFires == \E tm \in timers : tm.kind = "cycle" /\ FireTimer(tm)

\* C1: no morph starts while the pointer is hovering.  Every step that
\* starts a morph (morph.active or isMorphing becomes true, or the count of
\* started morphs grows) is the firing of a cycle timer, and hovering is
\* false at that firing.
C1_NoMorphStartWhileHovering ==
  [][ ( \/ (~morph.active /\ morph.active')
        \/ (~isMorphing /\ isMorphing')
        \/ started' # started )
      => (~hovering /\ ~hovering' /\ CycleTimerFires) ]_vars

\* a cycle timer has fired during a hover that began in the idle gap, and
\* no morph was started
C1_Witness ==
  /\ lastCall = "cycle during hover"
  /\ hovering
  /\ ~morph.active
  /\ ~isMorphing

\* C2: after teardown no callback fires: once the element is disconnected,
\* no timer callback and no frame runs.
C2_NoCallbackAfterTeardown ==
  phase = "disconnected" => lastCall \in { "disconnectedCallback", "none" }

\* C3: startMorph called while a morph is active is a no-op.  It leaves the
\* snapshot, the target grid, the thresholds, the start time, the active
\* flag and the completion callback of the morph in flight as they were,
\* changes no other field, and starts no second morph.
C3_StartMorphWhileActiveIsNoOp ==
  [][ (morph.active /\ StartMorphCall)
      => (morph' = morph /\ started' = started /\ UNCHANGED fields) ]_vars

\* startMorph has just been called while a morph was in flight
C3_Witness ==
  /\ lastCall = "startMorph during morph"
  /\ morph.active
  /\ started >= 1

\* what a grid displays: the glyph at each (row, col)
Glyphs(grid) ==
  [i \in 1..Len(grid) |-> << grid[i].row, grid[i].col, grid[i].char >>]

\* the block the morph in flight resolves to
TargetBlock == fontArts[morph.onComplete.nextIndex + 1]

\* a frame that runs while a morph is active and whose progress is 1.0
CompletingFrame == morph.active /\ Progress(morph, now) >= 1000 /\ FrameRuns

\* C4: the completion callback of every started morph runs exactly once, in
\* the first frame whose progress reaches 1.0.  After every step, every
\* morph started has had its callback run once, except the one in flight
\* (as is the case initially, with no morph started); a callback runs only in a
\* frame at progress 1.0 of an active morph; such a frame runs it once,
\* marks the morph inactive and rebuilds the grid against the target block;
\* and a morph ends in no other way.
C4_CallbackExactlyOnce ==
  [][ /\ started' = completed' + (IF morph.active' THEN 1 ELSE 0)
      /\ completed' # completed => CompletingFrame
      /\ CompletingFrame =>
           /\ completed' = completed + 1
           /\ ~morph.active'
           /\ Glyphs(cells') = Glyphs(buildGrid(TargetBlock))
      /\ (morph.active /\ ~morph.active') => completed' # completed ]_vars

\* a frame has just completed a morph
C4_Witness ==
  /\ lastCall = "render during morph"
  /\ ~morph.active
  /\ completed >= 1
  /\ completed = started

\* the step arms exactly one timer: a cycle timer due after the pause that
\* was next, whose handle is stored in cycleTimer
ArmsCycleTimer ==
  \E tm \in timers' :
    /\ tm \notin timers
    /\ timers' = timers \cup { tm }
    /\ tm.kind = "cycle"
    /\ tm.due = now + nextPause
    /\ tm.id = cycleTimer'

\* C5: a cycle timer that fires while a morph is in flight is a no-op.  It
\* changes neither the morph, nor the cells, nor currentTextIndex, nor
\* nextPause, nor isMorphing; it arms and cancels no timer (the timer that
\* fired is the only one to leave the pending set); and the morph in flight
\* still has exactly its one completion callback to come.
C5_CycleDuringMorphIsNoOp ==
  [][ \A tm \in timers :
        (morph.active /\ tm.kind = "cycle" /\ tm.due <= now /\ FireTimer(tm))
        => /\ morph' = morph
           /\ cells' = cells
           /\ currentTextIndex' = currentTextIndex
           /\ nextPause' = nextPause
           /\ isMorphing' = isMorphing
           /\ cycleTimer' = cycleTimer
           /\ timers' = timers \ { tm }
           /\ started' = started
           /\ completed' = completed
           /\ started' = completed' + 1 ]_vars

\* a cycle timer has just fired while a morph was in flight
C5_Witness ==
  /\ lastCall = "cycle during morph"
  /\ morph.active
  /\ isMorphing

\* C6: a hover that begins or ends while a morph is in flight does not
\* interrupt it.  mouseenter and mouseleave leave the morph record (active
\* flag, start time, duration, snapshot, target grid, thresholds, callback)
\* and the glyphs shown unchanged, and a frame at progress 1.0 completes the
\* morph on its target block whether or not the pointer is hovering.
C6_HoverDoesNotInterruptMorph ==
  [][ /\ (morph.active /\ pointerOver' # pointerOver) =>
           /\ morph' = morph
           /\ cells' = cells
           /\ isMorphing' = isMorphing
           /\ started' = started
           /\ completed' = completed
      /\ (hovering /\ CompletingFrame) =>
           /\ ~morph.active'
           /\ completed' = completed + 1
           /\ Glyphs(cells') = Glyphs(buildGrid(TargetBlock)) ]_vars

\* the pointer has just entered while a morph was in flight
C6_Witness ==
  /\ lastCall = "mouseenter"
  /\ hovering
  /\ morph.active

\* C7: entering hover cancels any pending Idle->Morphing timer: right after
\* a mouseenter event no timer that leads to cycle() is pending (every timer
\* of the element leads to cycle(): directly, or through scheduleCycle()).
C7_NoTimerAfterMouseEnter == lastCall = "mouseenter" => timers = {}

\* C8: leaving hover re-arms a cycle timer at once if and only if no morph
\* is active: with no morph active mouseleave arms one cycle timer, due
\* after the pause that was next; with a morph active it arms none.
C8_LeaveRearmsIffNoMorph ==
  [][ (pointerOver /\ ~pointerOver') =>
        IF morph.active
        THEN timers' = timers /\ cycleTimer' = cycleTimer
             /\ nextPause' = nextPause
        ELSE ArmsCycleTimer ]_vars

\* the pointer has just left while a morph was in flight, and no timer is
\* pending
C8_Witness ==
  /\ lastCall = "mouseleave"
  /\ morph.active
  /\ timers = {}

\* C9: when a completion callback runs, the scheduler returns to Idle and
\* arms the next cycle timer in the same step.
C9_CompletionReturnsToIdleAndRearms ==
  [][ completed' # completed =>
        /\ ~isMorphing'
        /\ ~morph.active'
        /\ ArmsCycleTimer ]_vars

\* a frame has just completed a morph: the scheduler is idle and the timer
\* whose handle cycleTimer holds is pending
C9_Witness ==
  /\ lastCall = "render during morph"
  /\ completed >= 1
  /\ ~isMorphing
  /\ ~morph.active
  /\ \E tm \in timers : tm.id = cycleTimer /\ tm.kind = "cycle"

\* min(I + (n - 1) * S, M)
PauseOf(n) == Min(INITIAL_DELAY + (n - 1) * PAUSE_STEP, PAUSE_MAX)

\* C10: the n-th pause the cycle scheduler arms is min(I + (n-1)*S, M), with
\* I = 2000, S = 1000 and M = 10000.  Every step that arms a cycle timer is
\* the next call of scheduleCycle (the n-th, n counted by nArmed, which
\* stops counting at MaxArmed, where the pause has reached M), and the timer
\* it arms is due PauseOf(n) after the present instant.
C10_PauseSequence ==
  [][ \A tm \in timers' \ timers :
        tm.kind = "cycle" =>
          /\ nArmed' = Min(nArmed + 1, MaxArmed)
          /\ tm.due - now = PauseOf(nArmed')
          /\ lastPause' = PauseOf(nArmed') ]_vars

\* the pause has reached its cap: the ninth (or a later) call has just armed
\* a timer due PAUSE_MAX from now
C10_Witness ==
  /\ nArmed >= 9
  /\ lastPause = PAUSE_MAX
  /\ \E tm \in timers : tm.id = cycleTimer /\ tm.due = now + PAUSE_MAX

\* C11: nextPause grows only after a completed morph.  In every step it
\* does not decrease and does not exceed PAUSE_MAX, and it changes only in
\* a step in which a completion callback runs.
C11_PauseGrowsOnlyOnCompletion ==
  [][ /\ nextPause' >= nextPause
      /\ nextPause' <= PAUSE_MAX
      /\ nextPause' # nextPause => completed' # completed ]_vars

\* C12: with no hover and no teardown the first morph starts INITIAL_DELAY
\* (2000 ms) after initialization (the model connects the element at time
\* 0): once that delay has passed a morph has been started, and the first
\* morph's start time is INITIAL_DELAY.
C12_FirstMorphAfterInitialDelay ==
  (phase = "running" /\ pointerEvents = 0) =>
    /\ now > INITIAL_DELAY => started >= 1
    /\ started = 1 => morph.startTime = INITIAL_DELAY

\* where a grid puts its cells: the (row, col) and the rest position of each
Positions(grid) ==
  [i \in 1..Len(grid) |-> << grid[i].row, grid[i].col, grid[i].rx, grid[i].ry >>]

\* C13: cycling is round-robin inside the Style chosen at startup.  Once
\* connectedCallback has run, fontArts never changes; with a Style of at
\* least one block chosen, after k completed
\* morphs currentTextIndex is k mod N (N the number of blocks of the
\* Style); the morph in flight, if any, has block (currentTextIndex + 1)
\* mod N as its target; and the grid is the one built from block
\* currentTextIndex: its cells sit where buildGrid puts them and, when no
\* morph is in flight, show that block's glyphs.
C13_RoundRobinWithinStyle ==
  /\ [][phase # "constructed" => fontArts' = fontArts]_vars
  /\ [](fontArts # << >> =>
          LET N == Len(fontArts)
              shownBlock == fontArts[currentTextIndex + 1]
              nextIndex == (currentTextIndex + 1) % N
          IN  /\ currentTextIndex = completed % N
              /\ Positions(cells) = Positions(buildGrid(shownBlock))
              /\ ~morph.active => Glyphs(cells) = Glyphs(buildGrid(shownBlock))
              /\ morph.active =>
                   /\ morph.onComplete.nextIndex = nextIndex
                   /\ morph.toLines = SplitLines(fontArts[nextIndex + 1]))

\* the cycle has gone once round a Style of two blocks and shows its first
\* block again
C13_Witness ==
  /\ Len(fontArts) = 2
  /\ completed = 2
  /\ currentTextIndex = 0
  /\ ~morph.active
  /\ Glyphs(cells) = Glyphs(buildGrid(BlockPQ))

\* the glyph a grid shows at (row, col): blank where it has no cell
Display(grid, row, col) ==
  IF \E i \in 1..Len(grid) : grid[i].row = row /\ grid[i].col = col
  THEN grid[CHOOSE i \in 1..Len(grid) :
              grid[i].row = row /\ grid[i].col = col].char
  ELSE " "

\* the glyph a block has at (row, col): blank where it has no position
BlockGlyph(block, row, col) ==
  LET lines == SplitLines(block)
  IN  IF row + 1 <= Len(lines) /\ col + 1 <= Len(lines[row + 1])
      THEN lines[row + 1][col + 1]
      ELSE " "

\* C14: in every morph, a frame at progress 0 shows every cell's pre-morph
\* glyph (the glyphs of the block displayed when the morph started), and a
\* frame at progress 1 gives every cell its target glyph, the glyph of the
\* target block at the cell's (row, col) or a blank where the target has no
\* such position, and the canvas then shows that glyph there; whatever the
\* dimensions of source and target, the frame runs to its end and requests
\* the next one.
C14_GlyphsAtProgressZeroAndOne ==
  [][ (morph.active /\ FrameRuns) =>
        /\ Progress(morph, now) = 0 =>
             Glyphs(cells') = Glyphs(buildGrid(fontArts[currentTextIndex + 1]))
        /\ Progress(morph, now) >= 1000 =>
             \A i \in 1..Len(cells) :
               LET target == BlockGlyph(TargetBlock, cells[i].row, cells[i].col)
               IN  /\ MorphChar(morph, cells[i], i, 1000, << >>) = target
                   /\ Display(cells', cells[i].row, cells[i].col) = target
        /\ phase' = "running"
        /\ rafId' \in rafs' ]_vars

\* a frame at progress 1 has just ended a morph whose source had a glyph at
\* a position the target block does not have: the canvas is blank there
C14_Witness ==
  /\ lastCall = "render during morph"
  /\ ~morph.active
  /\ completed >= 1
  /\ \E i \in 1..Len(morph.fromSnap) :
       /\ morph.fromSnap[i].char # " "
       /\ BlockGlyph(TargetBlock, morph.fromSnap[i].row,
                     morph.fromSnap[i].col) = " "
       /\ Display(cells, morph.fromSnap[i].row, morph.fromSnap[i].col) = " "

\* the rows and columns the blocks of the model span
GridSpan == 0..(Len(ThresholdTable) - 1)

\* C15: once a morph has been sampled at progress 1.0 the displayed grid is
\* exactly the target block, until the next morph starts: at every
\* (row, col) the canvas shows the target block's glyph, also at positions
\* the source grid did not have, and no two cells share a position.
C15_CompletedMorphDisplaysTarget ==
  (completed >= 1 /\ ~morph.active) =>
    /\ \A row \in GridSpan, col \in GridSpan :
         Display(cells, row, col) = BlockGlyph(TargetBlock, row, col)
    /\ \A i, j \in 1..Len(cells) :
         (cells[i].row = cells[j].row /\ cells[i].col = cells[j].col) => i = j

\* a frame at progress 1 has just ended a morph whose target has a glyph at
\* a position outside the source grid, and the canvas shows it
C15_Witness ==
  /\ lastCall = "render during morph"
  /\ ~morph.active
  /\ completed >= 1
  /\ \E i \in 1..Len(cells) :
       /\ cells[i].char # " "
       /\ cells[i].char = BlockGlyph(TargetBlock, cells[i].row, cells[i].col)
       /\ \A k \in 1..Len(morph.fromSnap) :
            ~(morph.fromSnap[k].row = cells[i].row
              /\ morph.fromSnap[k].col = cells[i].col)

\* C16: within one morph a resolved cell stays resolved.  A cell that a
\* frame of the morph in flight has shown resolved (its progress had reached
\* the cell's threshold) shows its target glyph after every later frame of
\* that morph, the completing frame included, and stays in the set of
\* resolved cells while the morph is in flight.
C16_ResolvedStaysResolved ==
  [][ (morph.active /\ FrameRuns) =>
        /\ \A i \in resolved.shown :
             Display(cells', cells[i].row, cells[i].col)
               = BlockGlyph(TargetBlock, cells[i].row, cells[i].col)
        /\ morph.active' => resolved.shown \subseteq resolved.shown' ]_vars

\* a frame has just drawn again a cell an earlier frame of the same morph
\* had resolved, while other cells are still unresolved
C16_Witness ==
  /\ lastCall = "render during morph"
  /\ morph.active
  /\ resolved.again # {}
  /\ \E i \in 1..Len(cells) : i \notin resolved.shown

\* C17: the grid built for a block has exactly rows x max-line-length
\* cells, one at every (row, col), and the cells beyond a line's actual
\* length are blank.  The grid on display is the one buildGrid returned for
\* block currentTextIndex.
C17_GridIsRectangular ==
  fontArts # << >> =>
    LET lines == SplitLines(fontArts[currentTextIndex + 1])
    IN  /\ Len(cells) = Len(lines) * maxCols(lines)
        /\ \A row \in 0..(Len(lines) - 1), col \in 0..(maxCols(lines) - 1) :
             \E i \in 1..Len(cells) :
               /\ cells[i].row = row
               /\ cells[i].col = col
               /\ col + 1 > Len(lines[row + 1]) => cells[i].char = " "

\* a cell at its rest position with no velocity
AtRest(cell) ==
  cell.px = cell.rx /\ cell.py = cell.ry /\ cell.vx = 0 /\ cell.vy = 0

\* the cells of a grid after one physics step under the present pointer
Moved(grid) == [i \in 1..Len(grid) |-> physicsCell(grid[i], mouseX, mouseY)]

\* C18: every grid rebuild yields cells at rest with zero velocity, whatever
\* the displacement and velocity of the cells it replaces.  The grid
\* connectedCallback builds is at rest; the frame that completes a morph
\* leaves the grid built for the target block, at rest, moved by that
\* frame's one physics step and by nothing of the old cells' motion (so
\* exactly at rest when the pointer is far away); the same block gives the
\* same grid.
C18_RebuildResetsCells ==
  [][ /\ (phase = "constructed" /\ phase' = "running") =>
           /\ \A i \in 1..Len(cells') : AtRest(cells'[i])
           /\ cells' = buildGrid(fontArts'[1])
      /\ CompletingFrame =>
           LET fresh == buildGrid(TargetBlock)
           IN  /\ \A i \in 1..Len(fresh) : AtRest(fresh[i])
               /\ cells' = Moved(fresh)
               /\ mouseX = FAR_AWAY => cells' = fresh ]_vars

\* a morph that started with cells away from rest has just been completed
\* with the pointer still inside the canvas
C18_Witness ==
  /\ lastCall = "render during morph"
  /\ ~morph.active
  /\ completed >= 1
  /\ mouseX # FAR_AWAY
  /\ \E k \in 1..Len(morph.fromSnap) : ~AtRest(morph.fromSnap[k])

\* C19: a frame runs the morph update (only if a morph is active), then the
\* physics update of every cell (always), then requests the next frame, and
\* at most one frame request is pending at any time.  A frame with no morph
\* active changes no glyph and leaves the morph record alone; the cells a
\* frame leaves are the cells after the morph update (the rebuilt grid when
\* the frame completes the morph) moved by one physics step; the frame
\* consumes the one pending request and leaves one new request pending.
C19_FrameOrderAndSingleRequest ==
  /\ [](Cardinality(rafs) <= 1)
  /\ [][ FrameRuns =>
           /\ rafs = { rafId }
           /\ rafs' = { rafId' }
           /\ ~morph.active => (morph' = morph /\ Glyphs(cells') = Glyphs(cells))
           /\ LET updated == IF morph.active /\ Progress(morph, now) >= 1000
                             THEN buildGrid(TargetBlock)
                             ELSE cells
              IN  /\ Len(cells') = Len(updated)
                  /\ \A i \in 1..Len(updated) :
                       LET moved == physicsCell(updated[i], mouseX, mouseY)
                       IN  /\ cells'[i].px = moved.px
                           /\ cells'[i].py = moved.py
                           /\ cells'[i].vx = moved.vx
                           /\ cells'[i].vy = moved.vy ]_vars

\* a frame has just completed a morph with the pointer in reach of a cell:
\* the rebuilt grid has already been moved by that frame's physics step
C19_Witness ==
  /\ lastCall = "render during morph"
  /\ ~morph.active
  /\ rafs = { rafId }
  /\ \E i \in 1..Len(cells) : ~AtRest(cells[i])

\* C20 as claimed: the pointer-move and pointer-leave callbacks change
\* mouseX and mouseY and nothing else.
C20_PointerCallbacksTouchOnlyCoordinates ==
  [][ lastCall' \in { "mousemove", "mouseleave" } =>
        UNCHANGED << phase, cells, fontArts, rafId, rafs, morph,
                     currentTextIndex, nextPause, cycleTimer, timers,
                     isMorphing, hovering >> ]_vars

\* C20, amended: the pointer-move callback changes mouseX and mouseY and
\* nothing else.  The pointer-leave callback sets them to the far-away
\* value, clears hovering and, when no morph is in flight, calls
\* scheduleCycle (one cycle timer armed, its handle stored in cycleTimer,
\* nextPause advanced); it leaves the cells, the morph record,
\* currentTextIndex, isMorphing and every other field unchanged.
C20_PointerCallbacksEffect ==
  [][ /\ lastCall' = "mousemove" =>
           UNCHANGED << phase, cells, fontArts, rafId, rafs, morph,
                        currentTextIndex, nextPause, cycleTimer, timers,
                        isMorphing, hovering >>
      /\ lastCall' = "mouseleave" =>
           /\ mouseX' = FAR_AWAY
           /\ mouseY' = FAR_AWAY
           /\ ~hovering'
           /\ UNCHANGED << phase, cells, fontArts, rafId, rafs, morph,
                           currentTextIndex, isMorphing >>
           /\ IF isMorphing
              THEN UNCHANGED << nextPause, cycleTimer, timers >>
              ELSE /\ ArmsCycleTimer
                   /\ nextPause' = Min(nextPause + PAUSE_STEP, PAUSE_MAX) ]_vars

\* the pointer has just left the canvas, after a move that pushed cells
\* away from rest: the coordinates are far away, the cells are still
\* displaced, and the cycle timer the callback armed is pending
C20_Witness ==
  /\ lastCall = "mouseleave"
  /\ mouseX = FAR_AWAY
  /\ mouseY = FAR_AWAY
  /\ ~hovering
  /\ \E i \in 1..Len(cells) : ~AtRest(cells[i])
  /\ \E tm \in timers : tm.id = cycleTimer /\ tm.kind = "cycle"

\* one physics step of a cell that receives no repulsion impulse: spring
\* toward rest, damping, integration
Unrepelled(cell) ==
  LET vx == Quot((cell.vx + Quot((cell.rx - cell.px) * SPRING_K, 100)) * DAMPING, 100)
      vy == Quot((cell.vy + Quot((cell.ry - cell.py) * SPRING_K, 100)) * DAMPING, 100)
  IN  [cell EXCEPT !.vx = vx, !.vy = vy, !.px = cell.px + vx, !.py = cell.py + vy]

\* C21: when the pointer leaves, its coordinates become the far-away value
\* and the event resets no cell's position or velocity (the cells are left
\* exactly as they were); and in every frame that runs while the pointer is
\* at the far-away value no cell receives a repulsion impulse: each cell
\* (of the rebuilt grid, when the frame completes a morph) moves by spring
\* and damping alone.
C21_LeaveSendsPointerFarAway ==
  [][ /\ lastCall' = "mouseleave" =>
           /\ mouseX' = FAR_AWAY
           /\ mouseY' = FAR_AWAY
           /\ cells' = cells
      /\ (FrameRuns /\ mouseX = FAR_AWAY /\ mouseY = FAR_AWAY) =>
           LET updated == IF morph.active /\ Progress(morph, now) >= 1000
                          THEN buildGrid(TargetBlock)
                          ELSE cells
           IN  \A i \in 1..Len(updated) :
                 LET free == Unrepelled(updated[i])
                 IN  /\ cells'[i].vx = free.vx
                     /\ cells'[i].vy = free.vy
                     /\ cells'[i].px = free.px
                     /\ cells'[i].py = free.py ]_vars

\* a frame has just run after the pointer left, with a cell still away from
\* rest and still moving
C21_Witness ==
  /\ lastCall \in { "render", "render during morph" }
  /\ ~pointerOver
  /\ mouseX = FAR_AWAY
  /\ \E i \in 1..Len(cells) :
       /\ cells[i].px # cells[i].rx
       /\ cells[i].vx # 0

\* C22: repeated teardown is idempotent.  Every call of
\* disconnectedCallback leaves no frame request and no timer pending, and a
\* call that follows another call changes nothing.
C22_RepeatedTeardownIdempotent ==
  [][ lastCall' = "disconnectedCallback" =>
        /\ rafs' = {}
        /\ timers' = {}
        /\ lastCall = "disconnectedCallback" => UNCHANGED fields ]_vars

\* C23: with empty or missing style data, or with no canvas,
\* initialization is silently inert.  connectedCallback returns at its
\* guard with no field changed; the inert element has no frame request, no
\* timer and no grid, and no pointer listener has acted on it (hovering is
\* false, the pointer coordinates are far away); a teardown of the inert
\* element changes nothing, and afterwards still nothing is pending and no
\* callback runs.
C23_EmptyStyleDataIsInert ==
  /\ phase = "constructed" =>
       \A arts \in ArtsInputs, canvas \in BOOLEAN :
         (~canvas \/ Len(arts) = 0) =>
           connectedCallback(Self, arts, canvas, 0, now)
             = [Self EXCEPT !.phase = "inert"]
  /\ phase = "inert" =>
       /\ rafs = {} /\ timers = {} /\ cells = << >> /\ fontArts = << >>
       /\ rafId = 0 /\ cycleTimer = 0
       /\ ~hovering /\ mouseX = FAR_AWAY /\ mouseY = FAR_AWAY
       /\ started = 0
       /\ disconnectedCallback(Self) = [Self EXCEPT !.phase = "disconnected"]
  /\ (phase = "disconnected" /\ cells = << >>) =>
       /\ rafs = {} /\ timers = {}
       /\ ~hovering /\ started = 0
       /\ lastCall \in { "disconnectedCallback", "none" }

\* connectedCallback has just returned at its guard
C23_Witness ==
  /\ phase = "inert"
  /\ lastCall = "connectedCallback"
  /\ rafs = {}
  /\ timers = {}

\* C24: when the chosen Style has zero blocks, initialization raises no
\* error, the initial render step is requested, and no morph is started.
\* (The Style with zero blocks is the only way for connectedCallback to get
\* past its guard and leave fontArts empty.)
C24_ZeroBlockStyleStillRenders ==
  (lastCall = "connectedCallback" /\ phase # "inert" /\ fontArts = << >>) =>
    /\ phase = "running"
    /\ rafs = { rafId }
    /\ started = 0
    /\ ~morph.active
\* the (row, col) geometry of a grid
RowCols(grid) == [i \in 1..Len(grid) |-> << grid[i].row, grid[i].col >>]

\* every block of every Style
AllBlocks == UNION { { Arts[f][b] : b \in 1..Len(Arts[f]) } : f \in 1..Len(Arts) }

\* C25: threshold assignment is deterministic.  The thresholds a morph gets
\* when startMorph starts it are the thresholds any other morph would get
\* that is started on a grid of the same (row, col) geometry, with other
\* glyphs, another target block, another start time and another pointer
\* position; and no frame of the morph (whatever glitch characters it
\* draws) changes them.
C25_ThresholdsDependOnGeometryOnly ==
  /\ [](lastCall = "startMorph" =>
          \A art \in AllBlocks :
            RowCols(buildGrid(art)) = RowCols(morph.fromSnap) =>
              \A toArt \in AllBlocks, t \in { 0, now, MaxTime },
                 pointer \in { FAR_AWAY, 4 } :
                startMorph([Self EXCEPT !.morph.active = FALSE,
                                        !.cells = buildGrid(art),
                                        !.mouseX = pointer,
                                        !.mouseY = pointer],
                           toArt, NoCallback, t).morph.thresholds
                  = morph.thresholds)
  /\ [][(morph.active /\ started' = started) =>
          morph'.thresholds = morph.thresholds]_vars

\* a second morph, started later than the first, has just been started on a
\* grid with the geometry of a block
\* that has other glyphs
C25_Witness ==
  /\ morph.active
  /\ started >= 2
  /\ morph.startTime > 0
  /\ lastCall = "startMorph"
  /\ \E art \in AllBlocks :
       /\ RowCols(buildGrid(art)) = RowCols(morph.fromSnap)
       /\ \E i \in 1..Len(morph.fromSnap) :
            buildGrid(art)[i].char # morph.fromSnap[i].char

\* every cell is within Epsilon pixels of its rest position, on both axes
Settled ==
  \A i \in 1..Len(cells) :
    /\ Abs(cells[i].px - cells[i].rx) <= Epsilon * Subpixel
    /\ Abs(cells[i].py - cells[i].ry) <= Epsilon * Subpixel

PointerFarAway == phase = "running" /\ mouseX = FAR_AWAY /\ mouseY = FAR_AWAY

\* C26: with the pointer held at the far-away sentinel and no morph active,
\* whatever displacement and velocity the cells have reached, once
\* SettleFrames frames have run since the pointer went there every cell is
\* within Epsilon of its rest position, and stays there in every later
\* frame.  (heldFrames saturates at SettleFrames, and cells that are all at
\* rest with the pointer far away are settled already.)
C26_CellsSettleAtRest ==
  (PointerFarAway /\ ~morph.active /\ heldFrames >= SettleFrames) => Settled

\* the pointer has been over the cells and has left, and the frames since
\* have brought back a cell that the pointer had pushed away
C26_Witness ==
  /\ PointerFarAway
  /\ ~pointerOver
  /\ lastCall = "render"
  /\ heldFrames >= SettleFrames
  /\ Settled
  /\ \E i \in 1..Len(cells) :
       /\ cells[i].px # cells[i].rx
       /\ cells[i].vx = 0 /\ cells[i].vy = 0

\* the distance from the pointer to the rest position of a cell, in
\* pixels squared, and whether it is within the repulsion radius
PointerDistSq(cell) ==
  (cell.rx - mouseX * Subpixel) * (cell.rx - mouseX * Subpixel)
    + (cell.ry - mouseY * Subpixel) * (cell.ry - mouseY * Subpixel)

PointerInReach(cell) ==
  /\ mouseX # FAR_AWAY
  /\ PointerDistSq(cell) < (REPEL_RADIUS * Subpixel) * (REPEL_RADIUS * Subpixel)

\* the physics step leaves the cell as it is
Stable(cell) == physicsCell(cell, mouseX, mouseY) = cell

Displaced(cell) == cell.px # cell.rx \/ cell.py # cell.ry

\* the displacement the spring balances against the strongest repulsion,
\* REPEL_FORCE / SPRING_K pixels, doubled to allow for the overshoot on
\* the way there
MaxOffset == 2 * ((REPEL_FORCE * 100) \div SPRING_K)

Bounded(cell) ==
  /\ Abs(cell.px - cell.rx) <= MaxOffset * Subpixel
  /\ Abs(cell.py - cell.ry) <= MaxOffset * Subpixel

\* C27 as stated: with the pointer held stationary within the repulsion
\* radius of a cell's rest position, after SettleFrames frames the cell
\* rests at a fixed nonzero offset.
C27_HeldPointerGivesNonzeroOffset ==
  (phase = "running" /\ heldFrames >= SettleFrames) =>
    \A i \in 1..Len(cells) :
      PointerInReach(cells[i]) => Stable(cells[i]) /\ Displaced(cells[i])

\* C27, amended: with the pointer held stationary within the repulsion
\* radius of a cell's rest position and not exactly on it, after
\* SettleFrames frames the cell rests at a fixed nonzero offset from rest;
\* and in every frame, wherever the pointer is, the displacement of every
\* cell stays within MaxOffset pixels.
C27_HeldPointerEquilibrium ==
  /\ \A i \in 1..Len(cells) : Bounded(cells[i])
  /\ (phase = "running" /\ heldFrames >= SettleFrames) =>
       \A i \in 1..Len(cells) :
         (PointerInReach(cells[i]) /\ PointerDistSq(cells[i]) > 0) =>
           Stable(cells[i]) /\ Displaced(cells[i])

\* the pointer has rested on the canvas for SettleFrames frames, and a cell
\* within its reach stands still away from its rest position
C27_Witness ==
  /\ phase = "running"
  /\ lastCall = "render"
  /\ heldFrames >= SettleFrames
  /\ \E i \in 1..Len(cells) :
       /\ PointerInReach(cells[i])
       /\ PointerDistSq(cells[i]) > 0
       /\ Stable(cells[i])
       /\ Displaced(cells[i])
       /\ cells[i].vx = 0 /\ cells[i].vy = 0

\* C28: a row's card is visible only once the pointer has stayed on that
\* row for the entrance delay; leaving the row dismisses the card at once
\* and cancels a delay that has not elapsed; and while the pointer is on no
\* row no card is visible and no show timer is pending, so no card appears
\* after the pointer has left.
C28_CardOnlyAfterDelayOnRow ==
  /\ []((visibleSlug # Null) =>
          (pointerRow = visibleSlug /\ blogNow - enteredAt >= SHOW_DELAY))
  /\ []((pointerRow = Null) => (visibleSlug = Null /\ blogTimers = {}))
  /\ [][(pointerRow' = Null) => (visibleSlug' = Null /\ blogTimers' = {})]_vars

\* the card of a row is showing; the pointer came onto that row, as the
\* second row it entered, before the delay of the first could have elapsed,
\* so the first was cancelled when the pointer left
C28_Witness ==
  /\ visibleSlug # Null
  /\ pointerRow = visibleSlug
  /\ timerRef = 2
  /\ enteredAt < SHOW_DELAY
  /\ blogTimers = {}

\* a step that rebuilds the grid: connectedCallback, or the frame that
\* completes a morph
Rebuilds == phase = "constructed" \/ (morph.active /\ ~morph'.active)

\* the fields of a cell the physics step owns, and those it does not
Motion(cell) == << cell.px, cell.py, cell.vx, cell.vy >>

Place(cell) == << cell.row, cell.col, cell.rx, cell.ry >>

\* C29: field ownership of a Cell.  In every step that does not rebuild the
\* grid the cells stay the same cells, with their row, col, rx and ry;
\* char changes only in a frame that runs while a morph is active; px, py,
\* vx and vy change only in a frame; and the physics step of a frame, given
\* the cells the morph update left, changes nothing but px, py, vx and vy.
C29_CellFieldOwnership ==
  /\ [][~Rebuilds =>
          /\ Len(cells') = Len(cells)
          /\ \A i \in 1..Len(cells) :
               /\ Place(cells'[i]) = Place(cells[i])
               /\ ~(FrameRuns /\ morph.active) =>
                    cells'[i].char = cells[i].char
               /\ ~FrameRuns => Motion(cells'[i]) = Motion(cells[i])]_vars
  /\ [](\A i \in 1..Len(cells) :
          LET moved == physicsUpdate(Self).cells[i]
          IN  moved.char = cells[i].char /\ Place(moved) = Place(cells[i]))

\* a frame of a morph in flight has just changed the glyph of a cell and
\* moved it, and the cell is where it was built
C29_Witness ==
  /\ lastCall = "render during morph"
  /\ morph.active
  /\ \E i \in 1..Len(cells) :
       /\ cells[i].char # morph.fromSnap[i].char
       /\ cells[i].px # cells[i].rx
       /\ Place(cells[i]) = Place(morph.fromSnap[i])

\* pointer positions to probe the repulsion with: far away, outside the
\* radius, on its boundary, inside it, and on rest positions
ProbeXs ==
  { FAR_AWAY, 0 - REPEL_RADIUS - CharWidth, 0 - REPEL_RADIUS, 0 - CharWidth,
    0, CharWidth \div 2, CharWidth, REPEL_RADIUS \div 2, REPEL_RADIUS,
    REPEL_RADIUS + CharWidth }

ProbeYs ==
  { FAR_AWAY, FONT_SIZE, FONT_SIZE + LINE_HEIGHT, FONT_SIZE + LINE_HEIGHT \div 2,
    FONT_SIZE + REPEL_RADIUS }

\* the distance between a rest position and the pointer, at most twice the
\* radius
RestDist(rx, ry, mx, my) ==
  LET dx == rx - mx * Subpixel
      dy == ry - my * Subpixel
      reach == REPEL_RADIUS * Subpixel
  IN  IF Abs(dx) < reach /\ Abs(dy) < reach
      THEN Isqrt(dx * dx + dy * dy)
      ELSE 2 * reach

\* the strength of the repulsion at a distance: REPEL_FORCE at distance 0,
\* falling linearly to zero at the radius
LinearForce(dist) ==
  (REPEL_FORCE * (REPEL_RADIUS * Subpixel - dist)) \div REPEL_RADIUS

\* the impulse the claim describes, from a rest position and a pointer
\* position alone: along the line from the pointer to the rest position
KickAt(rx, ry, mx, my) ==
  LET dx == rx - mx * Subpixel
      dy == ry - my * Subpixel
      dist == RestDist(rx, ry, mx, my)
  IN  IF dist = 0 \/ dist >= REPEL_RADIUS * Subpixel
      THEN << 0, 0 >>
      ELSE << Quot(dx * REPEL_FORCE * (REPEL_RADIUS * Subpixel - dist),
                   REPEL_RADIUS * dist),
              Quot(dy * REPEL_FORCE * (REPEL_RADIUS * Subpixel - dist),
                   REPEL_RADIUS * dist) >>

\* the step of a cell is the impulse KickAt, then spring, damping and
\* integration
StepIsKickThenSpring(c, mx, my) ==
  LET k == KickAt(c.rx, c.ry, mx, my)
  IN  physicsCell(c, mx, my)
        = Unrepelled([c EXCEPT !.vx = @ + k[1], !.vy = @ + k[2]])

\* C30: whatever its displacement and velocity, the step a cell takes in a
\* frame is spring, damping and integration applied after an impulse that
\* is a function of the pointer position and the rest position only; the
\* impulse points away from the pointer, along the line from the pointer
\* to the rest position; its strength is LinearForce of their distance (up
\* to the rounding of the arithmetic); and it is zero at distance 0 and at
\* distances of the repulsion radius or more.  The first part is stated
\* for every cell of every state with the pointer where it is, the rest
\* for the cells of every grid with the pointer at every probe position.
C30_ImpulseFromRestPositionOnly ==
  /\ \A i \in 1..Len(cells) : StepIsKickThenSpring(cells[i], mouseX, mouseY)
  /\ lastCall = "connectedCallback" =>
       \A i \in 1..Len(cells) : \A mx \in ProbeXs, my \in ProbeYs :
         LET c == cells[i]
             dx == c.rx - mx * Subpixel
             dy == c.ry - my * Subpixel
             dist == RestDist(c.rx, c.ry, mx, my)
             k == KickAt(c.rx, c.ry, mx, my)
             inside == 0 < dist /\ dist < REPEL_RADIUS * Subpixel
         IN  /\ StepIsKickThenSpring(c, mx, my)
             /\ ~inside => k = << 0, 0 >>
             /\ inside =>
                  /\ k[1] * dx >= 0 /\ k[2] * dy >= 0
                  /\ Abs(k[1] * dy - k[2] * dx) <= Abs(dx) + Abs(dy)
                  /\ Abs(Isqrt(k[1] * k[1] + k[2] * k[2])
                           - LinearForce(dist)) <= 2

\* a frame has run with the pointer inside the radius of a cell that is
\* displaced from rest, and the impulse that cell receives is not zero
C30_Witness ==
  /\ phase = "running"
  /\ lastCall = "render"
  /\ \E i \in 1..Len(cells) :
       /\ PointerInReach(cells[i])
       /\ Displaced(cells[i])
       /\ KickAt(cells[i].rx, cells[i].ry, mouseX, mouseY) # << 0, 0 >>
       /\ cells[i].vx # 0

\* the timestamps the next frame can be given
NextTimestamps == FrameTimestamps(now) \cup EarlyTimestamps(now)

\* the glyphs of a grid, cell by cell
Chars(grid) == [i \in 1..Len(grid) |-> grid[i].char]

\* C31 as stated: the progress of every frame of an active morph lies in
\* [0, 1]; it is 0 for a timestamp before the start time and exactly 1 for
\* a timestamp past start + duration.
C31_ProgressClampedBothWays ==
  morph.active =>
    \A ts \in NextTimestamps :
      /\ Progress(morph, ts) \in 0..1000
      /\ ts < morph.startTime => Progress(morph, ts) = 0
      /\ ts > morph.startTime + morph.duration => Progress(morph, ts) = 1000

\* C31, amended: the progress of every frame of an active morph is at most
\* 1 and is exactly 1 for a timestamp past start + duration; for a
\* timestamp before the start time it is negative, and the frame leaves the
\* morph active with every cell showing its pre-morph glyph, as progress 0
\* would.
C31_ProgressClampedAbove ==
  /\ [](morph.active =>
          \A ts \in NextTimestamps :
            /\ Progress(morph, ts) <= 1000
            /\ ts < morph.startTime =>
                 /\ Progress(morph, ts) < 0
                 /\ GlitchCells(Self, ts) = {}
            /\ ts > morph.startTime + morph.duration =>
                 Progress(morph, ts) = 1000)
  /\ [][(lastCall' = "early render during morph"
           /\ now - VsyncLag < morph.startTime) =>
          /\ morph'.active
          /\ Chars(cells') = Chars(morph.fromSnap)
          /\ completed' = completed]_vars

\* a frame has run in a morph with a timestamp before the start time of the
\* morph: the morph goes on, the glyphs are the pre-morph ones and the
\* next frame is requested
C31_Witness ==
  /\ lastCall = "early render during morph"
  /\ morph.active
  /\ now - VsyncLag < morph.startTime
  /\ Chars(cells) = Chars(morph.fromSnap)
  /\ rafs = { rafId }

\* the pending timers whose callback is cycle()
CycleTimers == { tm \in timers : tm.kind = "cycle" }

\* C32: at most one cycle timer is pending at any time, and a pending one
\* carries the handle stored in cycleTimer, so that clearTimeout(cycleTimer)
\* cancels every timer that could lead to cycle().
C32_OneTrackedCycleTimer ==
  /\ Cardinality(CycleTimers) <= 1
  /\ \A tm \in CycleTimers : tm.id = cycleTimer
  /\ clearTimeout(Self, cycleTimer).timers = {}

\* C33: between event handlers the two morphing flags agree, isMorphing
\* being true exactly when morph.active is; so whenever cycle() would pass
\* its guard, the startMorph it calls is not a no-op: the morph becomes
\* active with the completion callback of cycle() installed.  After a
\* cycle() that passed its guard a morph with a completion callback is in
\* flight, started at this instant.
C33_MorphingFlagsAgree ==
  /\ isMorphing = morph.active
  /\ (phase \in { "running", "disconnected" } /\ fontArts # << >>
        /\ ~isMorphing /\ ~hovering) =>
       LET after == cycle(Self, now)
       IN  /\ after.morph.active /\ after.isMorphing
           /\ after.morph.onComplete.set
           /\ after.started = started + 1
  /\ lastCall = "cycle" =>
       /\ morph.active /\ isMorphing
       /\ morph.onComplete.set
       /\ morph.startTime = now

\* cycle() has passed its guard for the second time, after the completion
\* callback of the first morph had cleared isMorphing
C33_Witness ==
  /\ lastCall = "cycle"
  /\ completed >= 1
  /\ started >= 2
  /\ isMorphing /\ morph.active

\* C34: no lost wake-up.  In every state of a connected banner in which no
\* morph is active and the pointer is not hovering, a timer that leads to
\* cycle() is pending: the initial-delay timer or a cycle timer.
C34_NoLostWakeUp ==
  (phase = "running" /\ ~morph.active /\ ~hovering) =>
    \E tm \in timers : tm.kind \in { "scheduleCycle", "cycle" }

\* the pointer has just left, after the initial delay and with no morph in
\* flight, and the only pending timer is the one mouseleave armed
C34_Witness ==
  /\ phase = "running"
  /\ lastCall = "mouseleave"
  /\ ~morph.active /\ ~hovering
  /\ now > INITIAL_DELAY
  /\ \E tm \in timers :
       timers = { tm } /\ tm.kind = "cycle" /\ tm.id = cycleTimer

(***************************************************************************)
(* The banner with no teardown and a fair browser: a pending frame is      *)
(* eventually delivered, a due timer eventually fires and time passes.     *)
(* The clock runs while a morph is in flight, and while a timer is pending *)
(* and fewer than CycleMorphs morphs have started: as many as a run of     *)
(* MaxTime has room for at the first cadence.                              *)
(***************************************************************************)
CycleMorphs == MaxTime \div (INITIAL_DELAY + PAUSE_START)

\* a morph is in flight and the clock has not reached its end
MorphUnderWay ==
  morph.active /\ now < morph.startTime + morph.duration

\* a timer is pending and the run has morphs left to start
MorphsOwed ==
  timers # {} /\ started < CycleMorphs

TickLive ==
  /\ phase = "running"
  /\ \A tm \in timers : tm.due > now
  /\ LET step == IF morph.active THEN TickMs ELSE IdleMs
         next == IF timers = {} THEN now + step
                 ELSE Min(now + step, NextDue)
     IN  /\ (MorphUnderWay \/ MorphsOwed)
         /\ now' = next
  /\ lastCall' = "none"
  /\ UNCHANGED << fields, pointerOver, pointerEvents, heldFrames, blog >>

NextLive ==
  \/ Connect
  \/ MouseEnter
  \/ MouseLeave
  \/ TimerFires
  \/ FramePaced
  \/ TickLive

\* a due timer can fire: the enabling condition of TimerFires
TimerDue == \E tm \in timers : tm.due <= now

\* a frame is pending whose timestamp is at or past the end of the morph:
\* FramePaced is enabled and ends the morph
FrameEndsMorph ==
  /\ morph.active
  /\ rafs # {}
  /\ lastCall \notin { "render", "render during morph" }
  /\ now >= morph.startTime + morph.duration

\* Weak fairness of the clock, of the timers and of the frame that ends a
\* morph; the last two are written out with their enabling conditions.
Fairness ==
  /\ WF_vars(TickLive)
  /\ ([]<>(~TimerDue) \/ []<><<TimerFires>>_vars)
  /\ ([]<>(~FrameEndsMorph) \/ []<><<FramePaced>>_vars)

SpecLive == Init /\ [][NextLive]_vars /\ Fairness

\* C35: every started morph eventually completes.  With no teardown and a
\* fair browser, a morph that became active becomes inactive, in a frame
\* that runs its completion callback, whatever hover and timer events
\* interleave with its frames: no other callback ends or restarts it.
C35_StartedMorphCompletes ==
  /\ morph.active ~> ~morph.active
  /\ [](completed = started - (IF morph.active THEN 1 ELSE 0))
  /\ [][ morph.active =>
           \/ /\ ~morph'.active
              /\ lastCall' = "render during morph"
              /\ completed' = started
           \/ /\ morph'.active
              /\ morph'.startTime = morph.startTime
              /\ started' = started ]_vars

\* the second morph of a run has completed in a frame, with the pointer
\* hovering
C35_Witness ==
  /\ lastCall = "render during morph"
  /\ ~morph.active
  /\ completed = 2
  /\ hovering

\* C36: the banner keeps cycling.  With no teardown, a fair browser and a
\* pointer that is eventually never hovering, a connected banner that has
\* completed n morphs eventually starts morph n + 1, for every n below
\* CycleMorphs (n = 0: the first morph starts).
C36_KeepsCycling ==
  (<>[](~hovering)) =>
    \A n \in 0..(CycleMorphs - 1) :
      (phase = "running" /\ completed = n) ~> (started > n)

\* a cycle timer armed when the pointer left has started the second morph
C36_Witness ==
  /\ lastCall = "cycle"
  /\ started = CycleMorphs
  /\ completed = CycleMorphs - 1
  /\ pointerEvents = MaxPointerEvents
  /\ ~pointerOver

\* C37: while a morph is active the cells array is the one snapshotted at
\* its start.  The snapshot, the thresholds and the cells have one length,
\* index i is the same (row, col) in the snapshot and in the cells and its
\* threshold is the threshold of that (row, col); and the (row, col) of the
\* cells change only in a step that rebuilds the grid (connectedCallback,
\* or the frame that completes a morph), while the snapshot and the
\* thresholds of a morph in flight never change.
C37_CellsMatchSnapshot ==
  /\ [](morph.active =>
          /\ Len(morph.fromSnap) = Len(cells)
          /\ Len(morph.thresholds) = Len(cells)
          /\ RowCols(morph.fromSnap) = RowCols(cells)
          /\ \A i \in 1..Len(cells) :
               morph.thresholds[i] = Threshold(cells[i].row, cells[i].col))
  /\ [][ /\ (RowCols(cells') # RowCols(cells) => Rebuilds)
         /\ (morph.active /\ morph'.active) =>
              /\ morph'.fromSnap = morph.fromSnap
              /\ morph'.thresholds = morph.thresholds ]_vars

\* a frame of a morph has changed glyphs: the cells differ from the
\* snapshot in their characters and agree with it in their geometry
C37_Witness ==
  /\ morph.active
  /\ lastCall = "render during morph"
  /\ \E i \in 1..Len(cells) : cells[i].char # morph.fromSnap[i].char
  /\ RowCols(morph.fromSnap) = RowCols(cells)

\* the rows whose card is rendered
VisibleCards == { slug \in Slugs : visibleSlug = slug }

\* C38: blog hover card state.  At most one show timer is pending, it is the
\* one timerRef holds and it is for the row the pointer is on; at most one
\* card is visible, and a visible card is the card of the row the pointer
\* entered last and has not left.
C38_OneTimerOneCard ==
  /\ Cardinality(blogTimers) <= 1
  /\ \A tm \in blogTimers : tm.id = timerRef /\ tm.slug = pointerRow
  /\ Cardinality(VisibleCards) <= 1
  /\ \A slug \in VisibleCards : slug = pointerRow

\* the pointer is on the second row, entered after the delay of an earlier
\* row had elapsed, and the timer of the second row is pending alone
C38_Witness ==
  /\ pointerRow = "second-post"
  /\ enteredAt >= SHOW_DELAY
  /\ VisibleCards = {}
  /\ \E tm \in blogTimers :
       blogTimers = { tm } /\ tm.slug = "second-post" /\ tm.id = timerRef

====
